---- MODULE Spec2Model ----
(***************************************************************************)
(* State-machine model of the text-to-speech front end:                    *)
(*   - Home (tab switch mounts/unmounts the two components),                *)
(*   - TextToSpeech (Web Speech synthesis + microphone capture),            *)
(*   - IappTextToSpeech (remote synthesis over HTTP).                       *)
(*                                                                         *)
(* React state is a variable per useState cell; a handler reads the values *)
(* of the render in which it was created, so an async handler keeps the    *)
(* values captured at the click in its request record.  Every handler runs *)
(* to its next real suspension point (a getUserMedia or HTTP promise, a    *)
(* host event) in one action: awaits of already-settled promises only      *)
(* yield to microtasks and window.confirm/alert block the thread.          *)
(*                                                                         *)
(* Assumptions: the component is re-rendered before the next event is      *)
(* dispatched (handlers see the latest state); Date.now() never goes       *)
(* backwards; what the browser provides (speechSynthesis, AudioContext,    *)
(* MediaRecorder, 'end' on cancel) does not change during a behaviour,     *)
(* while every getUserMedia call and HTTP request may succeed or fail.     *)
(* A behaviour follows one TextToSpeech instance from mount to unmount.    *)
(* The host's voice catalog is empty at the first getVoices() call and is   *)
(* filled in by a later change that is announced by 'voiceschanged'.        *)
(***************************************************************************)
EXTENDS Integers, Sequences, FiniteSets, TLC

\* ---- bounds of the model ------------------------------------------------
MaxReq == 2        \* speak requests (handleSpeak calls that pass the guard) per behaviour
MaxClock == 2      \* largest value Date.now() takes
MaxChunks == 1     \* non-empty chunks held by audioChunksRef
MaxIappReq == 2    \* remote synthesis requests per behaviour

Texts == {"a", "b"}            \* non-empty texts the user can type
VoiceTypes == {"kaitom", "cee"} \* type VoiceType

ReqIds == 1..MaxReq
NoReq == 0

VARIABLES
  \* Home
  activeTab,          \* 'tts' | 'iapp'
  \* TextToSpeech: useState cells
  text, isSpeaking, isRecording, hasMicPermission, recordings,
  voices, selectedVoice, isThaiVoice, rate, pitch,
  \* TextToSpeech: useRef cells
  mediaRecorderRef,   \* 0 (null) or the id of the recorder it points to
  audioChunksRef,     \* sequence of chunks, each tagged with the recorder that emitted it
  audioCtx,           \* audioContextRef.current: "none" | "open" | "closed"
  recordingPrepared,  \* recordingPreparedRef.current
  \* TextToSpeech: asynchronous work
  req,                \* handleSpeak invocations: position, captured values, counters
  nextReq,            \* number of handleSpeak invocations so far
  micCheckPending,    \* the mount-time getUserMedia of checkMicrophonePermission is pending
  effectPending,      \* the [hasMicPermission] effect has to re-run (cleanup, then body)
  \* host environment: what the browser provides, fixed for a behaviour
  synthAvail,         \* window.speechSynthesis exists, so synth.current is non-null
  audioCtxAvail,      \* new AudioContext() succeeds
  recorderFault,      \* "none"; "ctor": new MediaRecorder throws; "start": start() throws
  cancelFiresEnd,     \* the host fires 'end' on utterances that cancel() removes
  \* host environment: objects
  recorders,          \* MediaRecorder objects, one per request at most
  streams,            \* microphone streams opened for capture sessions
  probeOpen,          \* live streams opened by the permission probes
  synthQueue,         \* speechSynthesis queue: utterances (by request), head is spoken
  lateEnd,            \* cancelled utterances whose 'end' event the host still delivers
  now,                \* the last value Date.now() returned
  catalog,            \* what speechSynthesis.getVoices() returns
  voicesEvent,        \* a 'voiceschanged' event is queued
  queried,            \* the catalog returned to the most recent getVoices() call
  \* IappTextToSpeech
  iText, isLoading, iRecordings, iSelectedVoice, iReq, iCount

homeVars == <<activeTab>>
ttsState == <<text, isSpeaking, isRecording, hasMicPermission, recordings>>
hostCaps == <<synthAvail, audioCtxAvail, recorderFault, cancelFiresEnd>>
ttsRefs == <<hostCaps, mediaRecorderRef, audioChunksRef, audioCtx, recordingPrepared>>
ttsAsync == <<req, nextReq, micCheckPending, effectPending>>
hostVars == <<recorders, streams, probeOpen, synthQueue, lateEnd>>
iappVars == <<iText, isLoading, iRecordings, iSelectedVoice, iReq, iCount>>
voiceState == <<voices, selectedVoice, isThaiVoice>>
voiceVars == <<voiceState, rate, pitch, catalog, voicesEvent, queried>>
vars == <<homeVars, ttsState, ttsRefs, ttsAsync, hostVars, now, iappVars, voiceVars>>

\* ---- generic helpers ----------------------------------------------------
Range(s) == {s[i] : i \in 1..Len(s)}

Ids(list) == {list[i].id : i \in 1..Len(list)}

\* ---- Recording Registry (both components) -------------------------------
\* setRecordings(prev => [newRecording, ...prev])
AddRecordingAtEnd(prev, newRecording) == Append(prev, newRecording)

AddRecording(prev, newRecording) == <<newRecording>> \o prev

\* setRecordings(prev => prev.filter(r => r.id !== id))
FilterOut(prev, id) == SelectSeq(prev, LAMBDA r : r.id # id)

\* `rec-${Date.now()}` followed by a second Date.now() for the timestamp: each
\* read returns the previous value or a later one.
Stamps == {<<i, t>> : i \in now..MaxClock, t \in now..MaxClock} \cap
          {st \in (1..MaxClock) \X (1..MaxClock) : st[1] <= st[2]}


\* ---- TextToSpeech: voice catalog --------------------------------------------
\* A language tag is the sequence of its characters, so that toLowerCase() and
\* includes() are computed on it.
ThTH == <<"t", "h", "-", "T", "H">>
EnUS == <<"e", "n", "-", "U", "S">>
FrFR == <<"f", "r", "-", "F", "R">>

\* interface Voice (the name plays no part in the logic)
ThaiVoice == [voiceURI |-> "Kanya", lang |-> ThTH]
EnglishVoice == [voiceURI |-> "Samantha", lang |-> EnUS]
FrenchVoice == [voiceURI |-> "Thomas", lang |-> FrFR]

\* What speechSynthesis.getVoices() may return: nothing yet, a catalog with a
\* Thai voice that is not the first one, a catalog without Thai voice.
Catalogs == {<<>>, <<FrenchVoice, EnglishVoice, ThaiVoice>>, <<FrenchVoice, EnglishVoice>>}

\* String.prototype.toLowerCase on the characters that occur in the tags
ToLowerCase(tag) ==
  [i \in 1..Len(tag) |->
     CASE tag[i] = "T" -> "t" [] tag[i] = "H" -> "h" [] tag[i] = "E" -> "e"
       [] tag[i] = "N" -> "n" [] tag[i] = "U" -> "u" [] tag[i] = "S" -> "s"
       [] tag[i] = "F" -> "f" [] tag[i] = "R" -> "r" [] OTHER -> tag[i]]

\* String.prototype.includes
Includes(tag, part) ==
  \E k \in 0..(Len(tag) - Len(part)) : \A i \in 1..Len(part) : tag[k + i] = part[i]

\* The filter of getVoices, lines 86-91.
IsSupported(voice) ==
  LET lang == ToLowerCase(voice.lang) IN
    Includes(lang, <<"t", "h">>) \/ Includes(lang, <<"e", "n">>) \/ Includes(lang, <<"k", "o">>)

FilterVoices(availableVoices) == SelectSeq(availableVoices, IsSupported)

\* v.lang.includes('th'), lines 100 and 143
IsThai(voice) == Includes(voice.lang, <<"t", "h">>)

\* Array.prototype.find, given the result of the test on each element: index of
\* the first element that satisfies it, 0 when there is none
FindIndex(tests) ==
  IF \E i \in 1..Len(tests) : tests[i]
  THEN CHOOSE i \in 1..Len(tests) : tests[i] /\ \A j \in 1..(i - 1) : ~tests[j]
  ELSE 0

\* getVoices, lines 82-106, on the catalog `availableVoices`: the values of
\* voices, selectedVoice and isThaiVoice after its setState calls.
GetVoicesKeepSelection(availableVoices, sel, thai) ==
  LET filteredVoices == FilterVoices(availableVoices)
      thaiVoice == FindIndex([i \in 1..Len(filteredVoices) |-> IsThai(filteredVoices[i])]) IN
    [voices |-> filteredVoices,
     selectedVoice |-> IF Len(filteredVoices) > 0 /\ thaiVoice # 0
                       THEN filteredVoices[thaiVoice].voiceURI ELSE sel,
     isThaiVoice |-> IF Len(filteredVoices) > 0 /\ thaiVoice # 0 THEN TRUE ELSE thai]

GetVoicesKeepFirst(availableVoices, sel, thai) ==
  LET filteredVoices == FilterVoices(availableVoices) IN
    [voices |-> filteredVoices,
     selectedVoice |-> IF Len(filteredVoices) > 0 THEN filteredVoices[1].voiceURI ELSE sel,
     isThaiVoice |-> thai]

GetVoices(availableVoices, sel, thai) ==
  LET filteredVoices == FilterVoices(availableVoices)
      thaiVoice == FindIndex([i \in 1..Len(filteredVoices) |-> IsThai(filteredVoices[i])]) IN
    [voices |-> filteredVoices,
     selectedVoice |-> IF Len(filteredVoices) > 0
                       THEN IF thaiVoice # 0 THEN filteredVoices[thaiVoice].voiceURI
                            ELSE filteredVoices[1].voiceURI
                       ELSE sel,
     isThaiVoice |-> IF Len(filteredVoices) > 0 /\ thaiVoice # 0 THEN TRUE ELSE thai]

\* rate, pitch and volume in tenths; useState(1.0) and the defaults of
\* convertTextToSpeech
DefaultRate == 10
DefaultPitch == 10
DefaultVolume == 10
\* <input type="range" min="0.1" max="2" step="0.1">: the values a slider can
\* deliver to handleRateChange / handlePitchChange (parseFloat of its value)
SliderValuesUnclamped == 0..21

SliderValues == 1..20

Rates == SliderValues
Pitches == SliderValues

\* the preset buttons: setRate(0.5 | 1.0 | 1.5), setPitch(0.5 | 1.0 | 1.5), and
\* the three buttons that set both (lines 448-460)
RatePresets == {5, 10, 15}
PitchPresets == {5, 10, 15}
VoicePresets == {<<7, 8>>, <<10, 10>>, <<13, 11>>}

\* ---- TextToSpeech: synthesis request ----------------------------------------
\* An optional value (undefined or a value) is a sequence of length 0 or 1.
Undefined == <<>>

\* a ?? b
OrElse(a, b) == IF a = Undefined THEN b ELSE a[1]

\* voices.find(v => v.voiceURI === selectedVoice)
FindVoice(list, uri) ==
  LET i == FindIndex([k \in 1..Len(list) |-> list[k].voiceURI = uri]) IN
    IF i = 0 THEN Undefined ELSE <<list[i]>>

\* new SpeechSynthesisUtterance(text): rate, pitch and volume 1, lang the empty
\* string, voice null
NewUtterance(t) ==
  [text |-> t, rate |-> 10, pitch |-> 10, volume |-> 10, lang |-> <<>>, voice |-> ""]

\* convertTextToSpeech(options), lines 27-37
ConvertTextToSpeech(options) ==
  [NewUtterance(options.text) EXCEPT
     !.rate = OrElse(options.rate, DefaultRate),
     !.pitch = OrElse(options.pitch, DefaultPitch),
     !.volume = OrElse(options.volume, DefaultVolume),
     !.lang = OrElse(options.lang, ThTH)]

\* The values of a render that handleSpeak reads when it builds the utterance.
NoView == [rate |-> DefaultRate, pitch |-> DefaultPitch, isThaiVoice |-> FALSE,
           voices |-> <<>>, selectedVoice |-> ""]

View == [rate |-> rate, pitch |-> pitch, isThaiVoice |-> isThaiVoice,
         voices |-> voices, selectedVoice |-> selectedVoice]

\* Lines 259-277: the utterance built from text t and the render values v.
Utterance(t, v) ==
  LET voice == FindVoice(v.voices, v.selectedVoice)
      utterance ==
        IF v.isThaiVoice
        THEN ConvertTextToSpeech([text |-> t, rate |-> <<v.rate>>, pitch |-> <<v.pitch>>,
                                  volume |-> Undefined,
                                  lang |-> IF voice = Undefined THEN Undefined
                                           ELSE <<voice[1].lang>>])
        ELSE [NewUtterance(t) EXCEPT !.rate = v.rate, !.pitch = v.pitch]
  IN IF voice # Undefined THEN [utterance EXCEPT !.voice = voice[1].voiceURI] ELSE utterance

\* no utterance built (yet)
NoUtterance == NewUtterance("")

\* ---- TextToSpeech: requests ----------------------------------------------
\* One record per handleSpeak invocation that passes its guard.
\*   pc                 position: "none", "perm" (awaiting the getUserMedia of
\*                      requestMicrophonePermission), "open" (awaiting the getUserMedia
\*                      of startRecording), "speaking" (utterance handed to synth),
\*                      "done" (onend ran), "cancelled", "declined", "nosynth"
\*                      (the handler returned at once: synth.current is null)
\*   text               the text of the render the click happened in
\*   sawRecording       isRecording of that render
\*   recordingStarted   the handler's local variable
\*   fail               why startRecording returned false: "perm", "prepare",
\*                      "stream", "recorder"; "none" otherwise
\*   confirmed          answer to window.confirm: "yes", "no"; "none" if not asked
\*   alerted            startRecording showed an alert
\*   attempts, speaks   number of startRecording and synth.speak calls made
\*   capAtSpeak         a MediaRecorder was in state 'recording' at synth.speak
\*   view               rate, pitch and voice state of that render
\*   utterance          the utterance passed to synth.speak
NoRequest ==
  [pc |-> "none", text |-> "", sawRecording |-> FALSE, recordingStarted |-> FALSE,
   fail |-> "none", confirmed |-> "none", alerted |-> FALSE,
   attempts |-> 0, speaks |-> 0, capAtSpeak |-> FALSE,
   view |-> NoView, utterance |-> NoUtterance]

Mounted == activeTab = "tts"

Pending(r) == req[r].pc \in {"perm", "open", "speaking"}

\* No asynchronous work of the TextToSpeech instance is left.
Drained ==
  /\ \A r \in ReqIds : ~Pending(r)
  /\ \A k \in ReqIds : recorders[k] # "stopping"
  /\ synthQueue = <<>>
  /\ lateEnd = {}

\* ---- IappTextToSpeech: requests ---------------------------------------------
\* getApiUrl(): `https://api.iapp.co.th/thai-tts-${selectedVoice}/tts`, as the
\* pieces of the template.
GetApiUrlKaitom(voice) == <<"https://api.iapp.co.th/thai-tts-", "kaitom", "/tts">>

GetApiUrl(voice) == <<"https://api.iapp.co.th/thai-tts-", voice, "/tts">>

\* The style named by an endpoint URL.
StyleOf(url) == url[2]

\* The download attribute, line 826: `iapp-${voiceType}-${timestamp}.mp3`.
DownloadName(recording) == <<"iapp-", recording.voiceType, "-", recording.timestamp, ".mp3">>

\* The last convertTextToSpeech call.
\*   pc        "none", "inflight" (awaiting axios), "added", "failed"
\*   text      text of the render the click happened in
\*   voice     selectedVoice of that render
\*   url       config.url
\*   http      HTTP requests issued by the call
\*   alerted   the catch block showed its alert
\*   selected  selectedVoice of the component when the request settled
NoIappReq ==
  [pc |-> "none", text |-> "", voice |-> "kaitom", url |-> <<>>, http |-> 0,
   alerted |-> FALSE, selected |-> "kaitom"]

\* ---- Init ----------------------------------------------------------------------
\* Home showing tab `tab`, the component of that tab just mounted.
InitWith(tab) ==
  /\ activeTab = tab
  /\ text = ""
  /\ isSpeaking = FALSE
  /\ isRecording = FALSE
  /\ hasMicPermission = "null"
  /\ recordings = <<>>
  /\ synthAvail \in BOOLEAN
  /\ audioCtxAvail \in BOOLEAN
  /\ recorderFault \in {"none", "ctor", "start"}
  /\ cancelFiresEnd \in BOOLEAN
  \* a capability that no handler can reach is held at one value: without synth
  \* handleSpeak does nothing, without AudioContext no MediaRecorder is created
  /\ ~synthAvail => (audioCtxAvail /\ cancelFiresEnd)
  /\ ~(synthAvail /\ audioCtxAvail) => recorderFault = "none"
  /\ mediaRecorderRef = NoReq
  /\ audioChunksRef = <<>>
  /\ audioCtx = "none"
  /\ recordingPrepared = FALSE
  /\ req = [r \in ReqIds |-> NoRequest]
  /\ nextReq = 0
  /\ micCheckPending = (tab = "tts")
  /\ effectPending = FALSE
  /\ recorders = [k \in ReqIds |-> "none"]
  /\ streams = [k \in ReqIds |-> "none"]
  /\ probeOpen = 0
  /\ synthQueue = <<>>
  /\ lateEnd = {}
  /\ now = 1
  /\ catalog = <<>>
  /\ voicesEvent = FALSE
  /\ queried = <<>>
  /\ voices = <<>>
  /\ selectedVoice = ""
  /\ isThaiVoice = FALSE
  /\ rate = DefaultRate
  /\ pitch = DefaultPitch
  /\ iText = ""
  /\ isLoading = FALSE
  /\ iRecordings = <<>>
  /\ iSelectedVoice = "kaitom"
  /\ iReq = NoIappReq
  /\ iCount = 0

\* Home as first rendered: useState('tts').
Init == InitWith("tts")

\* ---- TextToSpeech: pieces of the handlers --------------------------------
\* setX(v) on an unmounted component is dropped by React.
SetState(old, new) == IF Mounted THEN new ELSE old

\* setHasMicPermission(v): the effect with dependency [hasMicPermission] re-runs
\* when the value changes.
EffectAfter(v) == effectPending \/ (Mounted /\ hasMicPermission # v)

\* A permission probe: getUserMedia resolved, then
\* stream.getTracks().forEach(track => track.stop()).
ProbeStream(open) == (open + 1) - 1

\* prepareRecording with the refs (ctx, prepared); ctorOK: new AudioContext()
\* does not throw.
PrepareRecordingUnchecked(ctx, prepared, ctorOK) ==
  IF prepared \/ ctx # "none" THEN [ok |-> TRUE, ctx |-> ctx, prepared |-> TRUE]
  ELSE IF ctorOK THEN [ok |-> TRUE, ctx |-> "open", prepared |-> TRUE]
  ELSE [ok |-> TRUE, ctx |-> "none", prepared |-> FALSE]

PrepareRecordingAlways(ctx, prepared, ctorOK) ==
  IF ctorOK THEN [ok |-> TRUE, ctx |-> "open", prepared |-> TRUE]
  ELSE [ok |-> prepared, ctx |-> ctx, prepared |-> prepared]

PrepareRecording(ctx, prepared, ctorOK) ==
  IF prepared THEN [ok |-> TRUE, ctx |-> ctx, prepared |-> TRUE]
  ELSE IF ctx # "none" THEN [ok |-> TRUE, ctx |-> ctx, prepared |-> TRUE]
  ELSE IF ctorOK THEN [ok |-> TRUE, ctx |-> "open", prepared |-> TRUE]
  ELSE [ok |-> FALSE, ctx |-> "none", prepared |-> FALSE]

\* startRecording returns false for reason `why`: each of its three failure
\* exits (lines 190, 198, 239) shows an alert first.
StartRecordingFailedSilent(rq, why) == [rq EXCEPT !.fail = why]

StartRecordingFailed(rq, why) == [rq EXCEPT !.fail = why, !.alerted = TRUE]

\* handleSpeak line 252: the confirmation is asked iff recordingStarted is false.
NeedsConfirmNever(recordingStarted) == FALSE

NeedsConfirm(recordingStarted) == ~recordingStarted

\* handleSpeak from line 252 on, for request record rq whose recordingStarted is
\* `started`; accept is the answer to window.confirm, cap tells whether a
\* recorder is recording at this moment.
Outcome(rq, started, accept, cap) ==
  IF NeedsConfirm(started) /\ ~accept
  THEN [rq EXCEPT !.pc = "declined", !.recordingStarted = started, !.confirmed = "no"]
  ELSE [rq EXCEPT !.pc = "speaking", !.recordingStarted = started,
                  !.confirmed = IF NeedsConfirm(started) THEN "yes" ELSE "none",
                  !.speaks = @ + 1, !.capAtSpeak = cap,
                  !.utterance = Utterance(rq.text, rq.view)]

FinishNoReturn(r, nr) ==
  /\ req' = [req EXCEPT ![r] = nr]
  /\ synthQueue' = Append(synthQueue, r)
  /\ isSpeaking' = SetState(isSpeaking, TRUE)

\* Lines 279-289 applied to the state: setIsSpeaking(true); synth.current.speak(utterance).
Finish(r, nr) ==
  /\ req' = [req EXCEPT ![r] = nr]
  /\ synthQueue' = IF nr.pc = "speaking" THEN Append(synthQueue, r) ELSE synthQueue
  /\ isSpeaking' = IF nr.pc = "speaking" THEN SetState(isSpeaking, TRUE) ELSE isSpeaking

\* utterance.onend line 284 / handleCancel line 307: the recorder the ref points to
\* is stopped when it is recording.
StopsRecorder(flag) ==
  flag /\ mediaRecorderRef # NoReq /\ recorders[mediaRecorderRef] = "recording"

\* mediaRecorderRef.current.stop(): the recorder becomes inactive at once and its
\* dataavailable and stop events are queued.
StopRefNever(doStop) == recorders

StopRef(doStop) ==
  IF doStop THEN [recorders EXCEPT ![mediaRecorderRef] = "stopping"] ELSE recorders


\* ---- TextToSpeech: actions ------------------------------------------------
\* checkMicrophonePermission (mount effect): its getUserMedia settles.
MicCheckResolve ==
  /\ Mounted /\ micCheckPending
  /\ micCheckPending' = FALSE
  /\ \E granted \in BOOLEAN :
       LET v == IF granted THEN "true" ELSE "false" IN
       /\ hasMicPermission' = v
       /\ effectPending' = EffectAfter(v)
       /\ probeOpen' = IF granted THEN ProbeStream(probeOpen) ELSE probeOpen
  /\ UNCHANGED <<homeVars, text, isSpeaking, isRecording, recordings, ttsRefs, req,
                 nextReq, recorders, streams, synthQueue, lateEnd, now, iappVars, voiceVars>>

\* synth.current.cancel(): the queue is emptied; the removed utterances get an
\* 'end' event on hosts that fire one (others fire 'error', which has no handler).
CancelSynth ==
  /\ synthQueue' = <<>>
  /\ lateEnd' = IF cancelFiresEnd THEN lateEnd \cup Range(synthQueue) ELSE lateEnd

Cancelled(rq) ==
  [r \in ReqIds |-> IF r \in Range(synthQueue) THEN [rq[r] EXCEPT !.pc = "cancelled"]
                    ELSE rq[r]]

\* The cleanup function of the [hasMicPermission] effect, lines 118-130.
Cleanup ==
  /\ IF synthAvail
     THEN CancelSynth /\ req' = Cancelled(req)
     ELSE UNCHANGED <<synthQueue, lateEnd, req>>
  /\ recorders' = StopRef(mediaRecorderRef # NoReq /\ recorders[mediaRecorderRef] = "recording")

\* A call of getVoices: the catalog is read and the result published.
QueryUnpublished ==
  /\ queried' = (IF synthAvail THEN catalog ELSE <<>>)
  /\ UNCHANGED voiceState

Query ==
  LET g == GetVoices(IF synthAvail THEN catalog ELSE <<>>, selectedVoice, isThaiVoice) IN
    /\ queried' = (IF synthAvail THEN catalog ELSE <<>>)
    /\ voices' = SetState(voices, g.voices)
    /\ selectedVoice' = SetState(selectedVoice, g.selectedVoice)
    /\ isThaiVoice' = SetState(isThaiVoice, g.isThaiVoice)

\* The [hasMicPermission] effect re-runs: cleanup of the previous run, then the body
\* (lines 79-116) with the new value.
RunEffect ==
  /\ Mounted /\ effectPending
  /\ effectPending' = FALSE
  /\ Cleanup
  /\ LET closed == IF audioCtx = "none" THEN "none" ELSE "closed"
           p == PrepareRecording(closed, recordingPrepared, audioCtxAvail) IN
       IF hasMicPermission = "true"
       THEN audioCtx' = p.ctx /\ recordingPrepared' = p.prepared
       ELSE audioCtx' = closed /\ recordingPrepared' = recordingPrepared
  /\ Query
  /\ UNCHANGED <<homeVars, ttsState, hostCaps, mediaRecorderRef, audioChunksRef,
                 nextReq, micCheckPending, streams, probeOpen, now, iappVars,
                 rate, pitch, catalog, voicesEvent>>

\* handleTextChange
HandleTextChange ==
  /\ Mounted
  /\ \E t \in (Texts \cup {""}) \ {text} : text' = t
  /\ UNCHANGED <<homeVars, isSpeaking, isRecording, hasMicPermission, recordings,
                 ttsRefs, ttsAsync, hostVars, now, iappVars, voiceVars>>

\* The speak button is enabled (disabled={isSpeaking || !text}) and the guard of
\* line 245 lets the click through, as far as text and isSpeaking go.
CanSpeakAnyText(t, speaking) == ~speaking

CanSpeak(t, speaking) == t # "" /\ ~speaking

\* A click on the speak button: handleSpeak up to its first pending promise.
HandleSpeak ==
  /\ Mounted /\ CanSpeak(text, isSpeaking)
  /\ nextReq < MaxReq
  /\ IF ~synthAvail
     THEN \* the guard of line 245 fails on synth.current: the handler returns
          /\ nextReq' = nextReq + 1
          /\ req' = [req EXCEPT ![nextReq + 1] = [NoRequest EXCEPT !.pc = "nosynth", !.text = text]]
          /\ UNCHANGED <<homeVars, ttsState, ttsRefs, micCheckPending, effectPending,
                         hostVars, now, iappVars, voiceVars>>
     ELSE
       LET r == nextReq + 1
           rq == [NoRequest EXCEPT !.text = text, !.sawRecording = isRecording,
                                   !.view = View]
           cap == \E k \in ReqIds : recorders[k] = "recording" IN
       /\ nextReq' = r
       /\ IF isRecording
          THEN \* recordingStarted = isRecording; startRecording is not called
               /\ Finish(r, Outcome(rq, TRUE, TRUE, cap))
               /\ UNCHANGED <<audioCtx, recordingPrepared>>
          ELSE IF hasMicPermission # "true"
          THEN \* startRecording -> requestMicrophonePermission -> getUserMedia
               /\ req' = [req EXCEPT ![r] = [rq EXCEPT !.pc = "perm", !.attempts = 1]]
               /\ UNCHANGED <<synthQueue, isSpeaking, audioCtx, recordingPrepared>>
          ELSE \* startRecording: prepare step, then getUserMedia
               LET p == PrepareRecording(audioCtx, recordingPrepared, audioCtxAvail) IN
                 /\ audioCtx' = p.ctx
                 /\ recordingPrepared' = p.prepared
                 /\ IF p.ok
                    THEN /\ req' = [req EXCEPT ![r] = [rq EXCEPT !.pc = "open", !.attempts = 1]]
                         /\ UNCHANGED <<synthQueue, isSpeaking>>
                    ELSE \E accept \in BOOLEAN :
                           Finish(r, Outcome(StartRecordingFailed([rq EXCEPT !.attempts = 1], "prepare"),
                                             FALSE, accept, cap))
       /\ UNCHANGED <<homeVars, text, isRecording, hasMicPermission, recordings, hostCaps,
                      mediaRecorderRef, audioChunksRef, micCheckPending, effectPending,
                      recorders, streams, probeOpen, lateEnd, now, iappVars, voiceVars>>

\* The getUserMedia of requestMicrophonePermission settles; startRecording and
\* handleSpeak run on to the next pending promise.
PermResolve(r) ==
  /\ req[r].pc = "perm"
  /\ LET cap == \E k \in ReqIds : recorders[k] = "recording" IN
     \/ \* granted
        /\ hasMicPermission' = SetState(hasMicPermission, "true")
        /\ effectPending' = EffectAfter("true")
        /\ probeOpen' = ProbeStream(probeOpen)
        /\ LET p1 == PrepareRecording(audioCtx, recordingPrepared, audioCtxAvail)
                 p2 == PrepareRecording(p1.ctx, p1.prepared, audioCtxAvail) IN
             /\ audioCtx' = p2.ctx
             /\ recordingPrepared' = p2.prepared
             /\ IF p2.ok
                THEN /\ req' = [req EXCEPT ![r].pc = "open"]
                     /\ UNCHANGED <<synthQueue, isSpeaking>>
                ELSE \E accept \in BOOLEAN :
                       Finish(r, Outcome(StartRecordingFailed(req[r], "prepare"),
                                         FALSE, accept, cap))
     \/ \* rejected
        /\ hasMicPermission' = SetState(hasMicPermission, "false")
        /\ effectPending' = EffectAfter("false")
        /\ \E accept \in BOOLEAN :
             Finish(r, Outcome(StartRecordingFailed(req[r], "perm"),
                               FALSE, accept, cap))
        /\ UNCHANGED <<probeOpen, audioCtx, recordingPrepared>>
  /\ UNCHANGED <<homeVars, text, isRecording, recordings, hostCaps, mediaRecorderRef,
                 audioChunksRef, nextReq, micCheckPending, recorders, streams, lateEnd,
                 now, iappVars, voiceVars>>


\* The getUserMedia of startRecording (line 204) settles; lines 206-241, then
\* handleSpeak from line 252.
OpenResolve(r) ==
  /\ req[r].pc = "open"
  /\ \/ \* stream obtained, recorder created and started
        /\ recorderFault = "none"
        /\ streams' = [streams EXCEPT ![r] = "live"]
        /\ recorders' = [recorders EXCEPT ![r] = "recording"]
        /\ mediaRecorderRef' = r
        /\ audioChunksRef' = <<>>
        /\ isRecording' = SetState(isRecording, TRUE)
        /\ Finish(r, Outcome(req[r], TRUE, TRUE, TRUE))
     \/ \* getUserMedia rejects
        /\ \E accept \in BOOLEAN :
             Finish(r, Outcome(StartRecordingFailed(req[r], "stream"), FALSE, accept,
                               \E k \in ReqIds : recorders[k] = "recording"))
        /\ UNCHANGED <<streams, recorders, mediaRecorderRef, audioChunksRef, isRecording>>
     \/ \* stream obtained, new MediaRecorder(stream) throws
        /\ recorderFault = "ctor"
        /\ streams' = [streams EXCEPT ![r] = "live"]
        /\ \E accept \in BOOLEAN :
             Finish(r, Outcome(StartRecordingFailed(req[r], "recorder"), FALSE, accept,
                               \E k \in ReqIds : recorders[k] = "recording"))
        /\ UNCHANGED <<recorders, mediaRecorderRef, audioChunksRef, isRecording>>
     \/ \* stream obtained, recorder created, mediaRecorder.start(1000) throws
        /\ recorderFault = "start"
        /\ streams' = [streams EXCEPT ![r] = "live"]
        /\ recorders' = [recorders EXCEPT ![r] = "inactive"]
        /\ mediaRecorderRef' = r
        /\ audioChunksRef' = <<>>
        /\ \E accept \in BOOLEAN :
             Finish(r, Outcome(StartRecordingFailed(req[r], "recorder"), FALSE, accept,
                               \E k \in ReqIds : recorders[k] = "recording"))
        /\ UNCHANGED isRecording
  /\ UNCHANGED <<homeVars, text, hasMicPermission, recordings, hostCaps, audioCtx,
                 recordingPrepared, nextReq, micCheckPending, effectPending, probeOpen,
                 lateEnd, now, iappVars, voiceVars>>

\* utterance.onend of request r, lines 281-287.
EndHandler(r) ==
  /\ isSpeaking' = SetState(isSpeaking, FALSE)
  /\ recorders' = StopRef(StopsRecorder(req[r].recordingStarted))

\* The host finishes speaking the utterance at the head of its queue.
OnEnd ==
  /\ synthQueue # <<>>
  /\ LET r == Head(synthQueue) IN
     /\ synthQueue' = Tail(synthQueue)
     /\ req' = [req EXCEPT ![r].pc = "done"]
     /\ EndHandler(r)
  /\ UNCHANGED <<homeVars, text, isRecording, hasMicPermission, recordings, ttsRefs,
                 nextReq, micCheckPending, effectPending, streams, probeOpen, lateEnd,
                 now, iappVars, voiceVars>>

\* The host delivers 'end' for an utterance that cancel() removed.
OnEndLate(r) ==
  /\ r \in lateEnd
  /\ lateEnd' = lateEnd \ {r}
  /\ EndHandler(r)
  /\ UNCHANGED <<homeVars, text, isRecording, hasMicPermission, recordings, ttsRefs,
                 ttsAsync, streams, probeOpen, synthQueue, now, iappVars, voiceVars>>

\* mediaRecorder.ondataavailable with event.data.size > 0 (timeslice 1000 ms).
DataAvailable(k) ==
  /\ recorders[k] = "recording"
  /\ Len(audioChunksRef) < MaxChunks
  /\ audioChunksRef' = Append(audioChunksRef, k)
  /\ UNCHANGED <<homeVars, ttsState, hostCaps, mediaRecorderRef, audioCtx,
                 recordingPrepared, ttsAsync, hostVars, now, iappVars, voiceVars>>

\* The text an onstop closure stores: the `text` of the render whose handleSpeak
\* created the recorder, not the text cell at the time of the event.
CurrentText(rq, current) == current

CapturedText(rq, current) == rq.text

\* The task queued by stop(): a last dataavailable (flush: it carries data), then
\* mediaRecorder.onstop, lines 216-231.  The artifact's url is the Blob of the
\* chunks; session names the recorder whose onstop built it.
OnStop(k) ==
  /\ recorders[k] = "stopping"
  /\ \E flush \in BOOLEAN, st \in Stamps :
       LET chunks == IF flush /\ Len(audioChunksRef) < MaxChunks
                     THEN Append(audioChunksRef, k) ELSE audioChunksRef
           newRecording == [id |-> st[1], text |-> CapturedText(req[k], text), url |-> chunks,
                            timestamp |-> st[2], session |-> k] IN
       /\ audioChunksRef' = chunks
       /\ recordings' = SetState(recordings, AddRecording(recordings, newRecording))
       /\ now' = st[2]
  /\ streams' = [streams EXCEPT ![k] = "stopped"]
  /\ isRecording' = SetState(isRecording, FALSE)
  /\ recorders' = [recorders EXCEPT ![k] = "inactive"]
  /\ UNCHANGED <<homeVars, text, isSpeaking, hasMicPermission, hostCaps, mediaRecorderRef,
                 audioCtx, recordingPrepared, ttsAsync, probeOpen, synthQueue, lateEnd,
                 iappVars, voiceVars>>

\* A click on the cancel button (disabled={!isSpeaking}): handleCancel.
HandleCancel ==
  /\ Mounted /\ isSpeaking
  /\ IF synthAvail
     THEN /\ CancelSynth
          /\ req' = Cancelled(req)
          /\ isSpeaking' = FALSE
          /\ recorders' = StopRef(StopsRecorder(isRecording))
     ELSE UNCHANGED <<synthQueue, lateEnd, req, isSpeaking, recorders>>
  /\ UNCHANGED <<homeVars, text, isRecording, hasMicPermission, recordings, ttsRefs,
                 nextReq, micCheckPending, effectPending, streams, probeOpen, now,
                 iappVars, voiceVars>>

\* The host replaces its voice catalog and queues 'voiceschanged'.
CatalogChange ==
  /\ synthAvail
  /\ \E c \in Catalogs \ {catalog} : catalog' = c
  /\ voicesEvent' = TRUE
  /\ UNCHANGED <<homeVars, ttsState, ttsRefs, ttsAsync, hostVars, now, iappVars,
                 voiceState, rate, pitch, queried>>

\* synth.current.onvoiceschanged = getVoices (line 111; never removed, so it also
\* runs after the unmount, where its setState calls are dropped).
OnVoicesChanged ==
  /\ voicesEvent
  /\ voicesEvent' = FALSE
  /\ Query
  /\ UNCHANGED <<homeVars, ttsState, ttsRefs, ttsAsync, hostVars, now, iappVars,
                 rate, pitch, catalog>>

\* handleVoiceChange: the user picks another option of the select.
HandleVoiceChange(voiceURI) ==
  /\ Mounted
  /\ voiceURI # selectedVoice
  /\ \E i \in 1..Len(voices) : voices[i].voiceURI = voiceURI
  /\ selectedVoice' = voiceURI
  /\ LET selectedVoiceObj == FindVoice(voices, voiceURI) IN
       isThaiVoice' = IF selectedVoiceObj = Undefined THEN FALSE
                      ELSE IsThai(selectedVoiceObj[1])
  /\ UNCHANGED <<homeVars, ttsState, ttsRefs, ttsAsync, hostVars, now, iappVars,
                 voices, rate, pitch, catalog, voicesEvent, queried>>

\* handleRateChange: the rate slider is moved
HandleRateChange(v) ==
  /\ Mounted
  /\ rate # v
  /\ rate' = v
  /\ UNCHANGED <<homeVars, ttsState, ttsRefs, ttsAsync, hostVars, now, iappVars,
                 voiceState, pitch, catalog, voicesEvent, queried>>

\* handlePitchChange: the pitch slider is moved
HandlePitchChange(v) ==
  /\ Mounted
  /\ pitch # v
  /\ pitch' = v
  /\ UNCHANGED <<homeVars, ttsState, ttsRefs, ttsAsync, hostVars, now, iappVars,
                 voiceState, rate, catalog, voicesEvent, queried>>

\* A click on a preset button; rp is the pair (rate, pitch) after the click.
HandlePreset(rp) ==
  /\ Mounted
  /\ <<rate, pitch>> # rp
  /\ rate' = rp[1]
  /\ pitch' = rp[2]
  /\ UNCHANGED <<homeVars, ttsState, ttsRefs, ttsAsync, hostVars, now, iappVars,
                 voiceState, catalog, voicesEvent, queried>>

\* deleteRecording(id) of TextToSpeech.
DeleteRecording(id) ==
  /\ Mounted
  /\ recordings # <<>>
  /\ recordings' = FilterOut(recordings, id)
  /\ UNCHANGED <<homeVars, text, isSpeaking, isRecording, hasMicPermission, ttsRefs,
                 ttsAsync, hostVars, now, iappVars, voiceVars>>


\* ---- IappTextToSpeech ------------------------------------------------------
IappMounted == activeTab = "iapp"

IappTextChange ==
  /\ IappMounted
  /\ \E t \in (Texts \cup {""}) \ {iText} : iText' = t
  /\ UNCHANGED <<homeVars, voiceVars, ttsState, ttsRefs, ttsAsync, hostVars, now, isLoading,
                 iRecordings, iSelectedVoice, iReq, iCount>>

\* handleVoiceChange(voice) of IappTextToSpeech.
IappVoiceChange(v) ==
  /\ IappMounted
  /\ iSelectedVoice # v
  /\ iSelectedVoice' = v
  /\ UNCHANGED <<homeVars, voiceVars, ttsState, ttsRefs, ttsAsync, hostVars, now, iText, isLoading,
                 iRecordings, iReq, iCount>>

\* The convert button is enabled (disabled={isLoading || !text}) and
\* convertTextToSpeech does not return at line 626.
CanConvert(t, loading) == t # "" /\ ~loading

\* A click on the convert button: convertTextToSpeech up to `await axios(config)`.
IappConvert ==
  /\ IappMounted /\ CanConvert(iText, isLoading)
  /\ iCount < MaxIappReq
  /\ iCount' = iCount + 1
  /\ isLoading' = TRUE
  /\ iReq' = [NoIappReq EXCEPT !.pc = "inflight", !.text = iText, !.voice = iSelectedVoice,
                               !.url = GetApiUrl(iSelectedVoice), !.http = 1]
  /\ UNCHANGED <<homeVars, voiceVars, ttsState, ttsRefs, ttsAsync, hostVars, now, iText, iRecordings,
                 iSelectedVoice>>

\* convertTextToSpeech after `await axios(config)`: the try block ran through
\* (ok) or the catch block ran (alert); no second request is made.
SettledSilent(rq, ok, sel) ==
  [rq EXCEPT !.pc = IF ok THEN "added" ELSE "failed", !.selected = sel]

Settled(rq, ok, sel) ==
  [rq EXCEPT !.pc = IF ok THEN "added" ELSE "failed", !.alerted = ~ok, !.selected = sel]

\* The HTTP request settles: lines 645-658 on success, the catch block on
\* failure, then `finally`.  The artifact's url is the Blob of the response,
\* named here by the endpoint that produced it.
IappResponse ==
  /\ iReq.pc = "inflight"
  /\ isLoading' = IF IappMounted THEN FALSE ELSE isLoading
  /\ \/ \E st \in Stamps :
          LET newRecording == [id |-> st[1], text |-> iReq.text, url |-> iReq.url,
                               timestamp |-> st[2], voiceType |-> iReq.voice] IN
          /\ iRecordings' = IF IappMounted THEN AddRecording(iRecordings, newRecording)
                            ELSE iRecordings
          /\ now' = st[2]
          /\ iReq' = Settled(iReq, TRUE, iSelectedVoice)
     \/ /\ iReq' = Settled(iReq, FALSE, iSelectedVoice)
        /\ UNCHANGED <<iRecordings, now>>
  /\ UNCHANGED <<homeVars, voiceVars, ttsState, ttsRefs, ttsAsync, hostVars, iText, iSelectedVoice,
                 iCount>>

\* deleteRecording(id) of IappTextToSpeech.
IappDeleteRecording(id) ==
  /\ IappMounted
  /\ iRecordings # <<>>
  /\ iRecordings' = FilterOut(iRecordings, id)
  /\ UNCHANGED <<homeVars, voiceVars, ttsState, ttsRefs, ttsAsync, hostVars, now, iText, isLoading,
                 iSelectedVoice, iReq, iCount>>

\* ---- Home -------------------------------------------------------------------
\* setActiveTab('iapp'): TextToSpeech unmounts (its effect cleanup runs, its state
\* is discarded), IappTextToSpeech mounts.
ShowIapp ==
  /\ activeTab = "tts"
  /\ activeTab' = "iapp"
  /\ Cleanup
  /\ audioCtx' = IF audioCtx = "none" THEN "none" ELSE "closed"
  /\ text' = ""
  /\ isSpeaking' = FALSE
  /\ isRecording' = FALSE
  /\ hasMicPermission' = "null"
  /\ recordings' = <<>>
  /\ micCheckPending' = FALSE
  /\ effectPending' = FALSE
  /\ voices' = <<>>
  /\ selectedVoice' = ""
  /\ isThaiVoice' = FALSE
  /\ rate' = DefaultRate
  /\ pitch' = DefaultPitch
  /\ UNCHANGED <<hostCaps, mediaRecorderRef, audioChunksRef, recordingPrepared,
                 nextReq, streams, probeOpen, now, iappVars, catalog, voicesEvent, queried>>

\* ---- specifications ---------------------------------------------------------
IdRange == 1..MaxClock

\* Events of a mounted TextToSpeech and of the work it leaves behind.
NextCapture ==
  \/ MicCheckResolve
  \/ RunEffect
  \/ HandleTextChange
  \/ HandleSpeak
  \/ \E r \in ReqIds : PermResolve(r)
  \/ \E r \in ReqIds : OpenResolve(r)
  \/ OnEnd
  \/ \E r \in ReqIds : OnEndLate(r)
  \/ \E k \in ReqIds : DataAvailable(k)
  \/ \E k \in ReqIds : OnStop(k)
  \/ HandleCancel
  \/ \E id \in IdRange : DeleteRecording(id)

\* Voice selection of a mounted TextToSpeech, and the host's voice catalog.
NextVoice ==
  \/ CatalogChange
  \/ OnVoicesChanged
  \/ \E v \in {ThaiVoice, EnglishVoice, FrenchVoice} : HandleVoiceChange(v.voiceURI)

\* The rate and pitch controls of a mounted TextToSpeech.
NextParams ==
  \/ \E v \in Rates : HandleRateChange(v)
  \/ \E v \in Pitches : HandlePitchChange(v)
  \/ \E v \in RatePresets : HandlePreset(<<v, pitch>>)
  \/ \E v \in PitchPresets : HandlePreset(<<rate, v>>)
  \/ \E rp \in VoicePresets : HandlePreset(rp)

NextIapp ==
  \/ IappTextChange
  \/ \E v \in VoiceTypes : IappVoiceChange(v)
  \/ IappConvert
  \/ IappResponse
  \/ \E id \in IdRange : IappDeleteRecording(id)

Next == NextCapture \/ NextVoice \/ NextParams \/ NextIapp \/ ShowIapp

\* The whole page, from the first render of Home.
Spec == Init /\ [][Next]_vars

\* TextToSpeech from its mount until after its unmount; IappTextToSpeech is not
\* operated.
SpecTts == Init /\ [][NextCapture \/ ShowIapp]_vars

\* The user clicks cancel when isSpeaking is set and the host has no completion
\* event left to deliver.
UserCancels == HandleCancel /\ synthQueue = <<>> /\ lateEnd = {}

\* The host delivers the events it owes: 'end' of the utterance being spoken,
\* 'end' of cancelled utterances (where it fires one), 'stop' of a stopped
\* recorder; where no 'end' will come, the user cancels.
HostDelivers ==
  /\ WF_vars(OnEnd)
  /\ \A r \in ReqIds : WF_vars(OnEndLate(r))
  /\ \A k \in ReqIds : WF_vars(OnStop(k))
  /\ WF_vars(UserCancels)

\* TextToSpeech from its mount until after its unmount, on a host that delivers
\* its events.  deleteRecording and the timeslice chunks are left out: they write
\* the recordings list and the chunk buffer only, which no handler reads back
\* into the speaking and recording flags.
NextLive ==
  \/ MicCheckResolve
  \/ RunEffect
  \/ HandleTextChange
  \/ HandleSpeak
  \/ \E r \in ReqIds : PermResolve(r)
  \/ \E r \in ReqIds : OpenResolve(r)
  \/ OnEnd
  \/ \E r \in ReqIds : OnEndLate(r)
  \/ \E k \in ReqIds : OnStop(k)
  \/ HandleCancel
  \/ ShowIapp

SpecTtsLive == Init /\ [][NextLive]_vars /\ HostDelivers

\* The voice list of TextToSpeech from its mount until after its unmount: the
\* host's catalog events, the getVoices calls of the [hasMicPermission] effect
\* and the user's voice changes.  No other handler writes the voice state
\* (handleSpeak reads it, see SpecTts).
SpecVoice == Init /\ [][NextVoice \/ MicCheckResolve \/ RunEffect \/ ShowIapp]_vars

\* The rate and pitch controls of TextToSpeech from its mount until after its
\* unmount, together with the catalog events that decide which branch builds
\* the utterance.
SpecParams == Init /\ [][NextParams \/ CatalogChange \/ OnVoicesChanged \/ ShowIapp]_vars

\* Home right after a switch to the IAPP tab made before TextToSpeech was used
\* (ShowIapp taken from Init; the host capabilities play no part from there on).
InitIapp ==
  /\ InitWith("iapp")
  /\ synthAvail /\ audioCtxAvail /\ cancelFiresEnd
  /\ recorderFault = "none"

\* IappTextToSpeech from its mount on.
SpecIapp == InitIapp /\ [][NextIapp]_vars

\* Either component from its mount on, without tab switches: the two recordings
\* lists under every sequence of operations of their component.
SpecLists == (Init \/ InitIapp) /\ [][NextCapture \/ NextIapp]_vars


\* ---- claims -------------------------------------------------------------------
Started(r) == req[r].pc \in {"speaking", "done", "cancelled"}

Recording == {k \in ReqIds : recorders[k] = "recording"}

RECURSIVE IsSubseq(_, _)
\* a is b with some elements left out, the others in the same order
IsSubseq(a, b) ==
  IF a = <<>> THEN TRUE
  ELSE IF b = <<>> THEN FALSE
  ELSE IF Head(a) = Head(b) /\ IsSubseq(Tail(a), Tail(b)) THEN TRUE
  ELSE IsSubseq(a, Tail(b))

\* C1: every accepted speak request that the user does not decline makes exactly
\* one startRecording call and exactly one synth.speak call, and no request makes
\* more than one of either.
C1_OneSpeakOneAttempt ==
  \A r \in ReqIds :
    /\ req[r].attempts <= 1 /\ req[r].speaks <= 1
    /\ Started(r) => (req[r].speaks = 1 /\ req[r].attempts = 1)

\* C2: a handleCancel step leaves isSpeaking false and, when a recorder is
\* recording at that moment, stops a recorder (whose onstop then adds the artifact).
C2_CancelFinalizes ==
  [][HandleCancel =>
       /\ ~isSpeaking'
       /\ Recording # {} => \E k \in Recording : recorders'[k] = "stopping"]_vars

\* C3: deleteRecording(id) shortens the list by exactly one when an artifact with
\* that id is present and leaves the list unchanged otherwise, in both components.
C3_DeleteRemovesOne ==
  [][\A id \in IdRange :
       /\ DeleteRecording(id) =>
            IF id \in Ids(recordings) THEN Len(recordings') = Len(recordings) - 1
            ELSE recordings' = recordings
       /\ IappDeleteRecording(id) =>
            IF id \in Ids(iRecordings) THEN Len(iRecordings') = Len(iRecordings) - 1
            ELSE iRecordings' = iRecordings]_vars

\* C4: no two artifacts of a recordings list have the same id.
UniqueIds(list) == \A i, j \in 1..Len(list) : i # j => list[i].id # list[j].id

C4_IdsUnique == UniqueIds(recordings) /\ UniqueIds(iRecordings)

\* C5: each recordings list is in non-increasing order of timestamp; a step that
\* adds an artifact puts it at index 0 and keeps the others as they were; a step
\* that removes artifacts keeps the remaining ones in their order.
ByRecency(list) ==
  \A i, j \in 1..Len(list) : i < j => list[i].timestamp >= list[j].timestamp

ListStep(old, new) ==
  /\ Len(new) > Len(old) => (Len(new) = Len(old) + 1 /\ Tail(new) = old)
  /\ Len(new) < Len(old) => IsSubseq(new, old)
  /\ Len(new) = Len(old) => new = old

Denied(r) == req[r].fail \in {"perm", "stream"}

C6_DeniedState ==
  \A r \in ReqIds : Denied(r) =>
    /\ req[r].attempts = 1 /\ ~req[r].recordingStarted /\ req[r].alerted
    /\ req[r].speaks = 1 => req[r].confirmed = "yes"
    /\ Started(r) => req[r].speaks = 1
    /\ req[r].pc = "declined" => req[r].speaks = 0
    /\ recorders[r] = "none" /\ streams[r] = "none"
    /\ \A i \in 1..Len(recordings) : recordings[i].session # r

C7_UnrecordedNeedsConfirm ==
  \A r \in ReqIds :
    (req[r].speaks = 1 /\ ~req[r].capAtSpeak) => req[r].confirmed = "yes"

\* C8: at most one speak request is in progress and at most one recorder is
\* recording.
C8_OneRequestAtATime ==
  /\ Cardinality({r \in ReqIds : Pending(r)}) <= 1
  /\ Cardinality(Recording) <= 1

\* C9: when no request, recorder event or utterance is outstanding (the
\* coordinator is idle or torn down), no microphone stream is live.
C9_StreamsReleased ==
  /\ probeOpen = 0
  /\ Drained => \A k \in ReqIds : streams[k] # "live"

\* C10: when onend arrives for a request whose own recorder is recording, that
\* recorder is stopped (its onstop then adds the artifact, stops the tracks and
\* resets isRecording).
C10_EndFinalizes ==
  [][\A r \in ReqIds :
       (req[r].pc = "speaking" /\ req'[r].pc = "done" /\ recorders[r] = "recording") =>
         recorders'[r] = "stopping"]_vars

\* C11: a step that is not a deleteRecording call keeps every artifact of the
\* lists, in order: only deleteRecording removes an artifact (speak, cancel and
\* synthesize requests, parameter changes and tab switches do not).
C11_KeptUntilDeleted ==
  [][/\ (\A id \in IdRange : ~DeleteRecording(id)) => IsSubseq(recordings, recordings')
     /\ (\A id \in IdRange : ~IappDeleteRecording(id)) => IsSubseq(iRecordings, iRecordings')]_vars

\* C12: when a remote synthesis request fails, the alert has been shown, the
\* recordings list is as it was, isLoading is false again and the call issued
\* exactly one HTTP request.
C12_FailureReported ==
  /\ [](iReq.pc = "failed" => (iReq.alerted /\ iReq.http = 1 /\ ~isLoading))
  /\ [][(iReq.pc = "inflight" /\ iReq'.pc = "failed") =>
          (iRecordings' = iRecordings /\ iReq'.http = 1 /\ iCount' = iCount)]_vars

\* a request failed after an earlier one had added an artifact
C12_Witness == iReq.pc = "failed" /\ iReq.alerted /\ Len(iRecordings) = 1

\* C13: a successful remote synthesis call adds exactly one artifact, at the
\* front; the voiceType of every artifact, and the style in its download name,
\* is the style of the endpoint that was requested, whatever the selector shows
\* when the response arrives.
TaggedByEndpoint(recording) ==
  /\ recording.voiceType = StyleOf(recording.url)
  /\ DownloadName(recording)[2] = StyleOf(recording.url)
  /\ DownloadName(recording)[5] = ".mp3"

C13_OneArtifactTagged ==
  /\ [](\A i \in 1..Len(iRecordings) : TaggedByEndpoint(iRecordings[i]))
  /\ [][(iReq.pc = "inflight" /\ iReq'.pc = "added") =>
          /\ Len(iRecordings') = Len(iRecordings) + 1
          /\ Tail(iRecordings') = iRecordings
          /\ iRecordings'[1].voiceType = StyleOf(iReq.url)
          /\ iReq'.http = 1]_vars

\* a call to the cee endpoint succeeded after the selector went back to kaitom
\* while the request was in flight
C13_Witness ==
  /\ iReq.pc = "added" /\ iReq.voice = "cee" /\ iReq.selected = "kaitom"
  /\ iRecordings # <<>> /\ iRecordings[1].voiceType = "cee"

\* C14: the utterance handed to synth.speak has the rate and pitch of the render
\* in which the request was made; its lang is the selected voice's tag when that
\* voice is in the list and is Thai, and the default locale th-TH otherwise.
SelectedThai(v) ==
  LET voice == FindVoice(v.voices, v.selectedVoice) IN
    voice # Undefined /\ IsThai(voice[1])

C14_RequestCarriesParams ==
  \A r \in ReqIds : req[r].speaks = 1 =>
    /\ req[r].utterance.rate = req[r].view.rate
    /\ req[r].utterance.pitch = req[r].view.pitch
    /\ req[r].utterance.lang =
         IF SelectedThai(req[r].view)
         THEN FindVoice(req[r].view.voices, req[r].view.selectedVoice)[1].lang
         ELSE ThTH

\* C15: every failure has produced a blocking notification: a failed capture
\* attempt, a speak request made without speech synthesis, and a microphone
\* check that was refused.
C15_FailuresNotified ==
  /\ \A r \in ReqIds : (req[r].fail # "none" \/ req[r].pc = "nosynth") => req[r].alerted
  /\ (Mounted /\ hasMicPermission = "false") => \E r \in ReqIds : req[r].alerted

\* C16: a request whose startRecording call returned false was shown an alert,
\* whatever the reason, and the step on which the call fails shows it.
C16_CaptureFailureAlerted ==
  /\ [](\A r \in ReqIds : req[r].fail # "none" =>
            (req[r].alerted /\ req[r].attempts = 1 /\ ~req[r].recordingStarted))
  /\ [][\A r \in ReqIds : (req[r].fail = "none" /\ req'[r].fail # "none") => req'[r].alerted]_vars

\* a request whose recorder could not be started was alerted and then declined
C16_Witness ==
  \E r \in ReqIds : req[r].fail = "recorder" /\ req[r].alerted /\ req[r].pc = "declined"

\* C17: after a getVoices call whose filtered list is not empty, the selected
\* voice is the first Thai voice of that list if it has one and the first voice
\* of the list otherwise.
C17_DefaultVoice ==
  [][((OnVoicesChanged \/ RunEffect) /\ Mounted) =>
       LET filteredVoices == FilterVoices(queried')
           thai == {i \in 1..Len(filteredVoices) : IsThai(filteredVoices[i])} IN
         filteredVoices # <<>> =>
           \E i \in 1..Len(filteredVoices) :
             /\ selectedVoice' = filteredVoices[i].voiceURI
             /\ IF thai = {} THEN i = 1 ELSE (i \in thai /\ \A j \in thai : i <= j)]_vars

\* the Thai voice is selected although an English voice comes first in the list
C17_Witness ==
  /\ Len(voices) = 2 /\ voices[1] = EnglishVoice
  /\ selectedVoice = ThaiVoice.voiceURI /\ isThaiVoice
  /\ ~voicesEvent

\* C18: the published list is the supported-language filter of the catalog that
\* the most recent getVoices call returned (empty at first, without error); a
\* 'voiceschanged' notification makes getVoices read the catalog again and
\* publish its filter, so that the list follows the catalog once the
\* notifications have been delivered.
C18_VoicesFollowCatalog ==
  /\ [](Mounted => voices = FilterVoices(queried))
  /\ []((Mounted /\ ~voicesEvent) => voices = FilterVoices(catalog))
  /\ [][(OnVoicesChanged /\ Mounted) =>
          (queried' = catalog /\ voices' = FilterVoices(catalog))]_vars

\* the catalog arrived after an empty first answer and was published, filtered
C18_Witness ==
  /\ Mounted /\ ~voicesEvent
  /\ Len(catalog) = 3 /\ voices = <<EnglishVoice, ThaiVoice>>

\* C19: once a request has handed its utterance to synth.speak, isSpeaking
\* becomes false and isRecording becomes false at some later time.
C19_ReturnsToRest ==
  /\ (\E r \in ReqIds : req[r].pc = "speaking") ~> ~isSpeaking
  /\ (\E r \in ReqIds : req[r].pc = "speaking") ~> ~isRecording

\* a request spoke with its recorder running, its utterance ended, the recorder
\* stopped, and both flags are false again in the mounted component
C19_Witness ==
  /\ Mounted /\ ~isSpeaking /\ ~isRecording
  /\ \E r \in ReqIds :
       req[r].pc = "done" /\ req[r].recordingStarted /\ recorders[r] = "inactive"

\* C20: no speak request and no remote synthesis call is made with empty text:
\* while the text is empty no handleSpeak invocation and no HTTP request begins
\* and isLoading is not set, every request carries a non-empty text, and so does
\* every artifact.
C20_State ==
  /\ \A r \in ReqIds : req[r].pc # "none" => req[r].text # ""
  /\ \A r \in ReqIds : (req[r].attempts > 0 \/ req[r].speaks > 0) => req[r].text # ""
  /\ iReq.pc # "none" => iReq.text # ""
  /\ \A i \in 1..Len(recordings) : recordings[i].text # ""
  /\ \A i \in 1..Len(iRecordings) : iRecordings[i].text # ""

C20_NoEmptySubmit ==
  /\ []C20_State
  /\ [][/\ text = "" => nextReq' = nextReq
        /\ iText = "" => (iCount' = iCount /\ (isLoading' => isLoading))]_vars

\* the text field was emptied after a request that left an artifact
C20_Witness ==
  /\ text = "" /\ nextReq > 0
  /\ recordings # <<>> /\ recordings[1].text # ""

\* C21: rate and pitch are in 1..20 (tenths) in every state, starting at 10, and
\* so are the rate and pitch of the utterance handleSpeak builds from them.
C21_ParamsInRange ==
  /\ rate \in 1..20 /\ pitch \in 1..20
  /\ Utterance("a", View).rate \in 1..20
  /\ Utterance("a", View).pitch \in 1..20

\* the rate slider at its upper end, pitch set by a preset, a Thai voice selected
C21_Witness == rate = 20 /\ pitch = 8 /\ isThaiVoice

\* C22: prepareRecording constructs the audio context at most once in a component
\* instance (the context goes from absent to open once and is never absent or
\* newly open again), the prepared flag stays set, and a call made after a
\* successful one returns true and changes nothing.
C22_PreparedOnce ==
  LET p == PrepareRecording(audioCtx, recordingPrepared, audioCtxAvail)
      q == PrepareRecording(p.ctx, p.prepared, audioCtxAvail) IN
    /\ p.ok => (q.ok /\ q.ctx = p.ctx /\ q.prepared)
    /\ recordingPrepared => (p.ok /\ p.ctx = audioCtx)

C22_PrepareIdempotent ==
  /\ []C22_PreparedOnce
  /\ [][/\ (audioCtx' = "open" /\ audioCtx # "open") => audioCtx = "none"
        /\ audioCtx # "none" => audioCtx' # "none"
        /\ recordingPrepared => recordingPrepared']_vars

\* a capture request passed its prepare step after the context, constructed by
\* the permission effect, had been closed: nothing was constructed again
C22_Witness ==
  /\ audioCtx = "closed" /\ recordingPrepared
  /\ \E r \in ReqIds : req[r].pc = "open"

\* C23: a capture request asks the host for authorization only when
\* hasMicPermission is not true; it goes on to open its stream only with the
\* authorization known or just granted and with the prepare step done; a
\* recorder is started, and isRecording set, only by a request in that position.
C23_Opened ==
  \A r \in ReqIds : recorders[r] # "none" =>
    (req[r].attempts = 1 /\ req[r].fail \in {"none", "recorder"} /\ recordingPrepared)

C23_CaptureOrder ==
  /\ []C23_Opened
  /\ [][\A r \in ReqIds :
          /\ (req[r].pc # "perm" /\ req'[r].pc = "perm") =>
               (req[r].pc = "none" /\ hasMicPermission # "true")
          /\ (req[r].pc # "open" /\ req'[r].pc = "open") =>
               /\ recordingPrepared'
               /\ \/ req[r].pc = "none" /\ hasMicPermission = "true"
                  \/ req[r].pc = "perm" /\ (Mounted => hasMicPermission' = "true")
          /\ (recorders[r] = "none" /\ recorders'[r] # "none") =>
               (req[r].pc = "open" /\ recordingPrepared)
          /\ (~isRecording /\ isRecording') =>
               \E k \in ReqIds : recorders[k] = "none" /\ recorders'[k] = "recording"]_vars

\* a request made before the microphone check had answered went through the
\* authorization request, the prepare step and a capture session, back to idle
C23_Witness ==
  /\ Mounted /\ micCheckPending /\ hasMicPermission = "true" /\ ~isRecording
  /\ \E r \in ReqIds : req[r].pc = "done" /\ recorders[r] = "inactive"

\* C24: a synthesis in progress is cancelled, and a running recorder stopped
\* short of the synthesis' end, only by handleCancel or by the unmount; the
\* re-run of the effect after a change of hasMicPermission does neither.
C24_OnlyCancelTerminates ==
  [][/\ (\E r \in ReqIds : req[r].pc = "speaking" /\ req'[r].pc = "cancelled")
          => (HandleCancel \/ ShowIapp)
     /\ (\E k \in ReqIds : recorders[k] = "recording" /\ recorders'[k] # "recording")
          => (HandleCancel \/ ShowIapp \/ OnEnd \/ \E r \in ReqIds : OnEndLate(r))
     /\ RunEffect => (synthQueue' = synthQueue /\ recorders' = recorders)]_vars

\* C25: the text of an artifact is the text submitted with the speak request
\* whose capture session produced it; a request's text is the text field's value
\* at the click and is never changed afterwards, whatever is typed before the
\* recorder's stop event.
C25_TextOfRequest ==
  /\ [](\A i \in 1..Len(recordings) :
          recordings[i].text = req[recordings[i].session].text)
  /\ [][\A r \in ReqIds :
          /\ (req[r].pc = "none" /\ req'[r].pc # "none") => req'[r].text = text
          /\ (req[r].pc # "none" /\ req'[r].pc # "none") => req'[r].text = req[r].text
          /\ OnStop(r) => (Mounted => /\ recordings' # recordings
                                       /\ Head(recordings').text = req[r].text)]_vars

\* one request made and captured; its artifact holds "a" though the field reads "b"
C25_Witness ==
  /\ nextReq = 2 /\ text = "b" /\ Len(recordings) = 1
  /\ recordings[1].text = "a" /\ recordings[1].session = 1 /\ req[1].text = "a"

\* C26: the audio of every artifact is made of chunks of its own capture
\* session only, the chunk buffer holds chunks of the session mediaRecorderRef
\* names only, and the opening of a session empties the buffer without dropping
\* the chunks of a session that has not been finalized yet.
C26_State ==
  /\ \A i \in 1..Len(recordings) : \A j \in 1..Len(recordings[i].url) :
       recordings[i].url[j] = recordings[i].session
  /\ \A j \in 1..Len(audioChunksRef) : audioChunksRef[j] = mediaRecorderRef

C26_OwnChunks ==
  /\ []C26_State
  /\ [][\A r \in ReqIds : (recorders[r] = "none" /\ recorders'[r] # "none") =>
          /\ audioChunksRef' = <<>>
          /\ \A j \in 1..Len(audioChunksRef) :
               recorders[audioChunksRef[j]] = "inactive"]_vars

\* C27: isThaiVoice is true exactly when the selected voice is in the published
\* list and its language tag contains "th".
C27_ThaiFlagMatches ==
  Mounted => (isThaiVoice <=> SelectedThai(View))

\* C28: the step in which a request whose capture attempt failed is declined
\* at the confirmation starts no synthesis and leaves isSpeaking, isRecording
\* and recordings as they were, as do the earlier steps of that request; a
\* declined request never has an utterance queued.
C28_State ==
  \A r \in ReqIds : req[r].pc = "declined" =>
    /\ req[r].fail # "none" /\ req[r].speaks = 0
    /\ r \notin Range(synthQueue) /\ r \notin lateEnd

C28_DeclineLeavesState ==
  /\ []C28_State
  /\ [][\A r \in ReqIds :
          (req'[r] # req[r] /\ req'[r].pc \in {"perm", "open", "declined"}) =>
            /\ synthQueue' = synthQueue /\ lateEnd' = lateEnd
            /\ isSpeaking' = isSpeaking /\ isRecording' = isRecording
            /\ recordings' = recordings
            /\ \A k \in ReqIds \ {r} : req'[k] = req[k]]_vars

\* the stream was refused, the user declined, nothing is being spoken or recorded
C28_Witness ==
  /\ Mounted /\ ~isSpeaking /\ ~isRecording /\ synthQueue = <<>> /\ recordings = <<>>
  /\ \E r \in ReqIds : req[r].fail = "stream" /\ req[r].confirmed = "no"
                        /\ req[r].pc = "declined"

\* C29: while the component is mounted, a set recordingPreparedRef means that
\* the AudioContext exists and is not closed; every capture session is opened
\* with an open AudioContext.
C29_PreparedMeansOpen ==
  /\ []((Mounted /\ recordingPrepared) => audioCtx = "open")
  /\ [][\A r \in ReqIds : (Mounted /\ recorders[r] = "none" /\ recorders'[r] # "none")
                             => audioCtx = "open"]_vars

\* C30: whenever the published voice list is not empty, selectedVoice is the
\* voiceURI of one of its voices.
C30_SelectedIsListed ==
  (Mounted /\ voices # <<>>) =>
    \E i \in 1..Len(voices) : voices[i].voiceURI = selectedVoice

\* the Thai voice that was selected has left the catalog; the re-query selected
\* the first voice of the new list
C30_Witness ==
  /\ Mounted /\ ~voicesEvent /\ isThaiVoice
  /\ voices = <<EnglishVoice>> /\ selectedVoice = EnglishVoice.voiceURI

====
